---- MODULE Spec2Model ----
(***************************************************************************)
(* Model of the grievance backend of AARON-Z4/SCIP: the duplicate-         *)
(* detection engine (backend/ai_engine.py) and the request handlers that   *)
(* use it (backend/routes/complaints.py, backend/routes/admin.py).         *)
(*                                                                         *)
(* Conventions.                                                            *)
(*  - A Python str is a sequence of one-character strings.                 *)
(*  - A Python float in [-1, 1] is an integer number of millionths         *)
(*    (fixed point, unit 1/Scale); divisions truncate towards zero.        *)
(*    combined_score is also computed in binary64, bit for bit, and        *)
(*    cosine_similarity with the overflow of np.float32.                   *)
(*  - An embedding vector is a sequence of integers; the vectors the model *)
(*    draws have an integral Euclidean norm, so Norm is exact on them.     *)
(***************************************************************************)
EXTENDS Integers, Sequences, FiniteSets, TLC

\* The fixed-point unit: 1.0 is Scale millionths.
Scale == 1000 * 1000

Abs(x) == IF x < 0 THEN -x ELSE x

Min2(a, b) == IF a <= b THEN a ELSE b

Max2(a, b) == IF a >= b THEN a ELSE b

\* Division truncating towards zero (a float quotient cut to the unit).
TruncDiv(a, b) == IF (a < 0) = (b < 0) THEN Abs(a) \div Abs(b) ELSE -(Abs(a) \div Abs(b))

\* round(x, 4) on a value in millionths: nearest multiple of 100, half away from zero.
Round4(x) == IF x >= 0 THEN ((x + 50) \div 100) * 100 ELSE -(((-x + 50) \div 100) * 100)

\* round(x * 100, 1): a percentage in tenths of a percent.
RoundPct1(x) == IF x >= 0 THEN (x + 500) \div 1000 ELSE -((-x + 500) \div 1000)

\* round(x * 100): a whole percentage.
RoundPct0(x) == IF x >= 0 THEN (x + 5000) \div 10000 ELSE -((-x + 5000) \div 10000)

(***************************************************************************)
(* Strings                                                                 *)
(***************************************************************************)
LowerLetters == {"a", "b", "c", "d", "r"}

DigitChars == <<"0", "1", "2", "3", "4", "5", "6", "7", "8", "9">>

DigitSet == {DigitChars[i] : i \in 1..10}

Whitespace == {" ", "\t"}

\* str.lower() on one character.
LowerChar(c) ==
  CASE c = "A" -> "a"
    [] c = "B" -> "b"
    [] c = "C" -> "c"
    [] c = "D" -> "d"
    [] c = "R" -> "r"
    [] OTHER -> c

\* str.upper() on one character.
UpperChar(c) ==
  CASE c = "g" -> "G"
    [] c = "r" -> "R"
    [] c = "v" -> "V"
    [] OTHER -> c

\* str.upper()
UpperStr(s) == [i \in 1..Len(s) |-> UpperChar(s[i])]

\* str.lower()
LowerStr(s) == [i \in 1..Len(s) |-> LowerChar(s[i])]

\* str.strip(): drops leading and trailing whitespace.
StripStr(s) ==
  LET keep == {i \in 1..Len(s) : s[i] \notin Whitespace}
  IN IF keep = {} THEN <<>>
     ELSE LET lo == CHOOSE i \in keep : \A j \in keep : i <= j
              hi == CHOOSE i \in keep : \A j \in keep : i >= j
          IN SubSeq(s, lo, hi)

\* The characters re.sub(r"[^a-z0-9 ]", "", ...) keeps.
IsKeptChar(c) == c \in LowerLetters \cup DigitSet \cup {" "}

\* _normalize_location
NormalizeLocation(loc) == SelectSeq(LowerStr(StripStr(loc)), IsKeptChar)

\* str.split(): the maximal runs of non-whitespace characters, as a set
\* (the code wraps the list in set()).
SplitWords(s) ==
  {SubSeq(s, i, j) : <<i, j>> \in
     {p \in (1..Len(s)) \X (1..Len(s)) :
        /\ p[1] <= p[2]
        /\ \A k \in p[1]..p[2] : s[k] \notin Whitespace
        /\ (p[1] = 1 \/ s[p[1] - 1] \in Whitespace)
        /\ (p[2] = Len(s) \/ s[p[2] + 1] \in Whitespace)}}

\* location_similarity dividing by the size of the first token set.
location_similarityByFirst(loc_a, loc_b) ==
  LET a_words == SplitWords(NormalizeLocation(loc_a))
      b_words == SplitWords(NormalizeLocation(loc_b))
  IN IF a_words = {} \/ b_words = {} THEN 0
     ELSE TruncDiv(Cardinality(a_words \cap b_words) * Scale, Cardinality(a_words))

\* location_similarity dividing by the size of the union (Jaccard).
location_similarityJaccard(loc_a, loc_b) ==
  LET a_words == SplitWords(NormalizeLocation(loc_a))
      b_words == SplitWords(NormalizeLocation(loc_b))
  IN IF a_words = {} \/ b_words = {} THEN 0
     ELSE TruncDiv(Cardinality(a_words \cap b_words) * Scale,
                   Cardinality(a_words \cup b_words))

\* location_similarity
location_similarity(loc_a, loc_b) ==
  LET a_words == SplitWords(NormalizeLocation(loc_a))
      b_words == SplitWords(NormalizeLocation(loc_b))
  IN IF a_words = {} \/ b_words = {} THEN 0
     ELSE TruncDiv(Cardinality(a_words \cap b_words) * Scale,
                   Max2(Cardinality(a_words), Cardinality(b_words)))

\* CategoryMatch comparing the two strings as they are.
CategoryMatchExact(new_category, category) == new_category = category

\* new_category.strip().lower() == comp.get("category", "").strip().lower()
CategoryMatch(new_category, category) ==
  LowerStr(StripStr(new_category)) = LowerStr(StripStr(category))

(***************************************************************************)
(* JSON text of an embedding (json.dumps / json.loads)                     *)
(***************************************************************************)
JsonWhitespace == {" ", "\t"}

RECURSIVE NatToStr(_)
\* The decimal digits of a natural number.
NatToStr(n) ==
  IF n < 10 THEN <<DigitChars[n + 1]>>
  ELSE NatToStr(n \div 10) \o <<DigitChars[(n % 10) + 1]>>

\* The JSON text of one number.
NumToStr(n) == IF n < 0 THEN <<"-">> \o NatToStr(-n) ELSE NatToStr(n)

RECURSIVE JoinNums(_)
\* The elements of a list, separated by ", " as json.dumps separates them.
JoinNums(vec) ==
  IF Len(vec) = 0 THEN <<>>
  ELSE IF Len(vec) = 1 THEN NumToStr(vec[1])
  ELSE NumToStr(vec[1]) \o <<",", " ">> \o JoinNums(Tail(vec))

\* json.dumps of a list of numbers.
JsonDumps(vec) == <<"[">> \o JoinNums(vec) \o <<"]">>

\* The value of a digit character.
DigitVal(c) == CHOOSE d \in 0..9 : DigitChars[d + 1] = c

RECURSIVE SkipWs(_, _)
\* The first position from i on that holds no JSON whitespace.
SkipWs(s, i) ==
  IF i <= Len(s) /\ s[i] \in JsonWhitespace THEN SkipWs(s, i + 1) ELSE i

RECURSIVE ScanDigits(_, _, _)
\* Reads the digits from position i on: <<value, next position>>.
ScanDigits(s, i, acc) ==
  IF i <= Len(s) /\ s[i] \in DigitSet
    THEN ScanDigits(s, i + 1, acc * 10 + DigitVal(s[i]))
    ELSE <<acc, i>>

\* Reads one JSON number at position i.
ParseNumber(s, i) ==
  LET neg == i <= Len(s) /\ s[i] = "-"
      from == IF neg THEN i + 1 ELSE i
      got == ScanDigits(s, from, 0)
  IN IF got[2] = from THEN [ok |-> FALSE, val |-> 0, next |-> i]
     ELSE [ok |-> TRUE, val |-> IF neg THEN -got[1] ELSE got[1], next |-> got[2]]

RECURSIVE ParseElems(_, _, _)
\* Reads "number (, number)* ]" from position i on.
ParseElems(s, i, acc) ==
  LET n == ParseNumber(s, i)
      k == SkipWs(s, n.next)
  IN IF ~n.ok \/ k > Len(s) THEN [ok |-> FALSE, vec |-> <<>>, next |-> i]
     ELSE IF s[k] = "]" THEN [ok |-> TRUE, vec |-> Append(acc, n.val), next |-> k + 1]
     ELSE IF s[k] = "," THEN ParseElems(s, SkipWs(s, k + 1), Append(acc, n.val))
     ELSE [ok |-> FALSE, vec |-> <<>>, next |-> i]

\* A Python value an embedding can hold after json.loads: a list of numbers
\* or one number. kind "null" is None and kind "str" is a str.
PyNull == [kind |-> "null", vec |-> <<>>, num |-> 0, text |-> <<>>]

PyList(v) == [kind |-> "list", vec |-> v, num |-> 0, text |-> <<>>]

PyNum(n) == [kind |-> "num", vec |-> <<>>, num |-> n, text |-> <<>>]

PyStr(t) == [kind |-> "str", vec |-> <<>>, num |-> 0, text |-> t]

\* json.loads on the JSON texts of the model: an array of numbers or a
\* number; ok is FALSE where json.loads raises.
JsonLoads(s) ==
  LET i == SkipWs(s, 1)
      bad == [ok |-> FALSE, val |-> PyNull]
  IN IF i > Len(s) THEN bad
     ELSE IF s[i] = "["
       THEN LET j == SkipWs(s, i + 1)
            IN IF j > Len(s) THEN bad
               ELSE IF s[j] = "]"
                 THEN IF SkipWs(s, j + 1) > Len(s)
                        THEN [ok |-> TRUE, val |-> PyList(<<>>)] ELSE bad
               ELSE LET e == ParseElems(s, j, <<>>)
                    IN IF e.ok /\ SkipWs(s, e.next) > Len(s)
                         THEN [ok |-> TRUE, val |-> PyList(e.vec)] ELSE bad
     ELSE LET n == ParseNumber(s, i)
          IN IF n.ok /\ SkipWs(s, n.next) > Len(s)
               THEN [ok |-> TRUE, val |-> PyNum(n.val)] ELSE bad

(***************************************************************************)
(* Binary floating point (the float of Python: IEEE 754 binary64)          *)
(***************************************************************************)
\* A natural number of any size is the sequence of its digits to the base
\* 2^10, the least significant first, without leading zero digits.
Base == 2^10

Limb(a, i) == IF i \in 1..Len(a) THEN a[i] ELSE 0

\* a without its leading zero digits.
BigTrim(a) ==
  LET used == {i \in 1..Len(a) : a[i] # 0}
  IN IF used = {} THEN <<>>
     ELSE SubSeq(a, 1, CHOOSE i \in used : \A j \in used : j <= i)

\* The digits of the number whose digit i is worth cols[i] < 2^30.
BigCarry(cols) ==
  LET n == Len(cols) + 3
      carry[i \in 0..n] == IF i = 0 THEN 0 ELSE (Limb(cols, i) + carry[i - 1]) \div Base
  IN BigTrim([i \in 1..n |-> (Limb(cols, i) + carry[i - 1]) % Base])

BigFromInt(n) == BigCarry(<<n % Base, n \div Base>>)

BigToInt(a) ==
  LET value[i \in 0..Len(a)] ==
        IF i = 0 THEN 0 ELSE a[Len(a) + 1 - i] + Base * value[i - 1]
  IN value[Len(a)]

BigAdd(a, b) == BigCarry([i \in 1..Max2(Len(a), Len(b)) |-> Limb(a, i) + Limb(b, i)])

\* a - b, for a >= b.
BigSub(a, b) ==
  LET borrow[i \in 0..Len(a)] ==
        IF i = 0 THEN 0
        ELSE IF a[i] - Limb(b, i) - borrow[i - 1] < 0 THEN 1 ELSE 0
  IN BigTrim([i \in 1..Len(a) |-> (a[i] - Limb(b, i) - borrow[i - 1] + Base) % Base])

\* a < b
BigLess(a, b) ==
  IF Len(a) # Len(b) THEN Len(a) < Len(b)
  ELSE \E i \in 1..Len(a) : a[i] < b[i] /\ \A j \in (i + 1)..Len(a) : a[j] = b[j]

\* a * k, for 0 <= k <= 2^20.
BigMulSmall(a, k) == BigCarry([i \in 1..Len(a) |-> a[i] * k])

\* a * b, for numbers of at most 2^10 digits.
BigMul(a, b) ==
  LET col(k) ==
        LET sum[i \in 0..k] ==
              IF i = 0 THEN 0 ELSE sum[i - 1] + Limb(a, i) * Limb(b, k + 1 - i)
        IN sum[k]
  IN BigCarry([k \in 1..(Len(a) + Len(b)) |-> col(k)])

\* <<a \div k, a % k>>, for 0 < k <= 2^20.
BigDivSmall(a, k) ==
  LET n == Len(a)
      rem[i \in 0..n] == IF i = 0 THEN 0 ELSE (rem[i - 1] * Base + a[n + 1 - i]) % k
  IN <<BigTrim([j \in 1..n |-> (rem[n - j] * Base + a[j]) \div k]), rem[n]>>

\* a * 2^n
BigShl(a, n) ==
  IF a = <<>> THEN <<>>
  ELSE [i \in 1..(n \div 10) |-> 0] \o BigMulSmall(a, 2^(n % 10))

\* a \div 2^n
BigShr(a, n) ==
  IF Len(a) <= n \div 10 THEN <<>>
  ELSE BigDivSmall(SubSeq(a, (n \div 10) + 1, Len(a)), 2^(n % 10))[1]

\* The number of binary digits of a.
BigBitLen(a) ==
  IF a = <<>> THEN 0
  ELSE 10 * (Len(a) - 1) + (CHOOSE k \in 1..10 : 2^(k - 1) <= a[Len(a)] /\ a[Len(a)] < 2^k)

\* a / 2^s rounded to the nearest integer, a tie to the even one.
BigRoundShr(a, s) ==
  IF s = 0 THEN a
  ELSE LET q == BigShr(a, s)
           r == BigSub(a, BigShl(q, s))
           half == BigShl(<<1>>, s - 1)
           up == BigLess(half, r) \/ (r = half /\ Limb(q, 1) % 2 = 1)
       IN IF up THEN BigAdd(q, <<1>>) ELSE q

\* The float of p significant bits nearest to m * 2^e, a tie to even:
\* [neg, m, e] with m of exactly p bits, or m = <<>> for zero.
RoundBig(neg, m, e, p) ==
  LET len == BigBitLen(m)
  IN IF m = <<>> THEN [neg |-> FALSE, m |-> <<>>, e |-> 0]
     ELSE IF len <= p THEN [neg |-> neg, m |-> BigShl(m, p - len), e |-> e - (p - len)]
     ELSE LET q == BigRoundShr(m, len - p)
          IN IF BigBitLen(q) > p
               THEN [neg |-> neg, m |-> BigShr(q, 1), e |-> e + (len - p) + 1]
               ELSE [neg |-> neg, m |-> q, e |-> e + (len - p)]

\* The float of p significant bits nearest to n / d, for 0 < d <= 2^20.
FloatOfRatio(n, d, p) ==
  LET q == BigDivSmall(BigShl(BigFromInt(IF n < 0 THEN 0 - n ELSE n), 80), d)
      sticky == IF q[2] = 0 THEN <<>> ELSE <<1>>
  IN RoundBig(n < 0, BigAdd(BigShl(q[1], 1), sticky), -81, p)

\* The float nearest to a number of millionths.
F64(n) == FloatOfRatio(n, Scale, 53)

\* x * y in binary64
F64Mul(x, y) == RoundBig(x.neg # y.neg, BigMul(x.m, y.m), x.e + y.e, 53)

\* x + y in binary64
F64Add(x, y) ==
  IF x.m = <<>> THEN y
  ELSE IF y.m = <<>> THEN x
  ELSE LET e == Min2(x.e, y.e)
           xm == BigShl(x.m, x.e - e)
           ym == BigShl(y.m, y.e - e)
       IN IF x.neg = y.neg THEN RoundBig(x.neg, BigAdd(xm, ym), e, 53)
          ELSE IF BigLess(xm, ym) THEN RoundBig(y.neg, BigSub(ym, xm), e, 53)
          ELSE RoundBig(x.neg, BigSub(xm, ym), e, 53)

\* x < y
F64Less(x, y) ==
  LET d == F64Add(x, [y EXCEPT !.neg = ~y.neg]) IN d.m # <<>> /\ d.neg

\* The number of millionths nearest to x, a tie to the even one.
Micro(x) ==
  LET scaled == BigMulSmall(x.m, Scale)
      n == IF x.e >= 0 THEN BigShl(scaled, x.e) ELSE BigRoundShr(scaled, 0 - x.e)
  IN IF x.neg THEN 0 - BigToInt(n) ELSE BigToInt(n)

(***************************************************************************)
(* Cosine similarity                                                       *)
(***************************************************************************)
\* np.dot of two vectors of one length.
Dot(a, b) ==
  LET sum[i \in 0..Len(a)] == IF i = 0 THEN 0 ELSE sum[i - 1] + a[i] * b[i]
  IN sum[Len(a)]

\* The integer square root.
ISqrt(n) == CHOOSE r \in 0..n : r * r <= n /\ (r + 1) * (r + 1) > n

\* np.linalg.norm
Norm(v) == ISqrt(Dot(v, v))

\* A list of the floats vec[i] * 2^exp, for exp >= 0. PyList(vec) is the
\* list with exp = 0.
PyFloats(vec, exp) == [kind |-> "list", vec |-> vec, num |-> 0, text |-> <<>>, exp |-> exp]

\* The binary exponent the components of a list are scaled by.
Exponent(a) == IF "exp" \in DOMAIN a THEN a.exp ELSE 0

\* np.float32 rounds n * 2^e to a finite value, not to infinity: its
\* magnitude is below 2^128 - 2^103. With e = 0 that holds of every
\* integer of the model.
Finite32(n, e) ==
  \/ e = 0
  \/ BigLess(BigShl(BigFromInt(Abs(n)), e), BigSub(BigShl(<<1>>, 128), BigShl(<<1>>, 103)))

\* cosine_similarity on lists whose components are finite np.float32
\* values. ok is FALSE where numpy raises (np.dot on vectors of different
\* lengths, or an operand that is no list of numbers); nan is TRUE where
\* the float returned is nan. The sum of squares of np.linalg.norm and the
\* products of np.dot are float32 and overflow to infinity; 0 * inf and
\* inf / inf are nan, and nan == 0 is false.
cosine_similarity(a, b) ==
  IF a.kind # "list" \/ b.kind # "list" \/ Len(a.vec) # Len(b.vec)
    THEN [ok |-> FALSE, v |-> 0, nan |-> FALSE]
  ELSE LET e == Exponent(a) + Exponent(b)
           dot == Dot(a.vec, b.vec)
           dot_finite ==
             /\ \A i \in 1..Len(a.vec) : Finite32(a.vec[i] * b.vec[i], e)
             /\ Finite32(dot, e)
           a_finite == Finite32(Dot(a.vec, a.vec), 2 * Exponent(a))
           b_finite == Finite32(Dot(b.vec, b.vec), 2 * Exponent(b))
           norm == Norm(a.vec) * Norm(b.vec)
           norm_finite == a_finite /\ b_finite /\ Finite32(norm, e)
           norm_nan == ~norm_finite /\ norm = 0
       IN IF norm_finite /\ norm = 0 THEN [ok |-> TRUE, v |-> 0, nan |-> FALSE]
          ELSE IF norm_finite THEN [ok |-> TRUE, v |-> TruncDiv(dot * Scale, norm), nan |-> FALSE]
          ELSE IF norm_nan \/ ~dot_finite THEN [ok |-> TRUE, v |-> 0, nan |-> TRUE]
          ELSE [ok |-> TRUE, v |-> 0, nan |-> FALSE]

(***************************************************************************)
(* Score fusion and reasoning                                              *)
(***************************************************************************)
\* combined_score: 0.60 text + 0.30 location + 0.10 category, in the
\* floating-point arithmetic of Python, of signals given in millionths.
\* The sum is evaluated from the left, each product and each sum rounded.
combined_score(text_sim, loc_sim, category_match) ==
  LET cat_score == IF category_match THEN F64(Scale) ELSE F64(0)
  IN F64Add(F64Add(F64Mul(F64(text_sim), F64(600000)), F64Mul(F64(loc_sim), F64(300000))),
            F64Mul(cat_score, F64(100000)))

\* combined_score to the millionth, the unit the scan of the model keeps
\* its scores in: the weighted sum rounded to the nearest millionth.
\* ScoreMicroIsCombinedScore states that this is Micro(combined_score(...)).
ScoreMicro(text_sim, loc_sim, category_match) ==
  (60 * text_sim + 30 * loc_sim + (IF category_match THEN 10 * Scale ELSE 0) + 50) \div 100

\* factor_scores: percentages in tenths of a percent.
factor_scores(text_sim, loc_sim, category_match) ==
  [text_similarity |-> RoundPct1(text_sim),
   location_match |-> RoundPct1(loc_sim),
   category_match |-> IF category_match THEN 1000 ELSE 0]

\* One sentence of the explanation.
Fragment(kind, pct, new, existing) ==
  [kind |-> kind, pct |-> pct, new |-> new, existing |-> existing]

\* build_reasoning whose location rule needs more than 0.30, not at least
\* 0.30: the rule does not fire at 0.30 exactly.
build_reasoningStrictLocation(score, text_sim, loc_sim, category_match, new_location, existing_location, new_category, existing_category) ==
  LET text_part ==
        IF text_sim >= 700000
          THEN <<Fragment("text_highly_similar", RoundPct0(text_sim), <<>>, <<>>)>>
        ELSE IF text_sim >= 500000
          THEN <<Fragment("text_notable", RoundPct0(text_sim), <<>>, <<>>)>>
        ELSE <<>>
      loc_part ==
        IF loc_sim >= 600000
          THEN <<Fragment("same_location_area", 0, <<>>, existing_location)>>
        ELSE IF loc_sim > 300000
          THEN <<Fragment("locations_nearby", 0, new_location, existing_location)>>
        ELSE <<>>
      cat_part ==
        IF category_match
          THEN <<Fragment("same_category", 0, new_category, <<>>)>>
        ELSE <<>>
      parts == text_part \o loc_part \o cat_part
  IN IF parts = <<>>
       THEN <<Fragment("overall_exceeds_threshold", RoundPct0(score), <<>>, <<>>)>>
       ELSE parts

\* build_reasoning: the sentences, in the order they are appended.
build_reasoning(score, text_sim, loc_sim, category_match, new_location, existing_location, new_category, existing_category) ==
  LET text_part ==
        IF text_sim >= 700000
          THEN <<Fragment("text_highly_similar", RoundPct0(text_sim), <<>>, <<>>)>>
        ELSE IF text_sim >= 500000
          THEN <<Fragment("text_notable", RoundPct0(text_sim), <<>>, <<>>)>>
        ELSE <<>>
      loc_part ==
        IF loc_sim >= 600000
          THEN <<Fragment("same_location_area", 0, <<>>, existing_location)>>
        ELSE IF loc_sim >= 300000
          THEN <<Fragment("locations_nearby", 0, new_location, existing_location)>>
        ELSE <<>>
      cat_part ==
        IF category_match
          THEN <<Fragment("same_category", 0, new_category, <<>>)>>
        ELSE <<>>
      parts == text_part \o loc_part \o cat_part
  IN IF parts = <<>>
       THEN <<Fragment("overall_exceeds_threshold", RoundPct0(score), <<>>, <<>>)>>
       ELSE parts

\* The explanation holds the fallback sentence.
HasFallback(parts) == \E i \in 1..Len(parts) : parts[i].kind = "overall_exceeds_threshold"

(***************************************************************************)
(* check_duplicate: the scan                                               *)
(***************************************************************************)
\* `not stored_embedding`: None, an empty list or an empty string.
IsFalsy(e) ==
  \/ e.kind = "null"
  \/ e.kind = "list" /\ e.vec = <<>>
  \/ e.kind = "str" /\ e.text = <<>>

\* ResolveEmbedding with a missing embedding defaulted to a zero vector
\* instead of skipped.
ResolveEmbeddingNullAsZero(comp) ==
  LET stored_embedding == comp.embedding
  IN IF stored_embedding.kind = "null" THEN [skip |-> FALSE, val |-> PyList(<<0, 0>>)]
     ELSE IF IsFalsy(stored_embedding) THEN [skip |-> TRUE, val |-> PyNull]
     ELSE IF stored_embedding.kind = "str"
       THEN LET parsed == JsonLoads(stored_embedding.text)
            IN IF parsed.ok THEN [skip |-> FALSE, val |-> parsed.val]
               ELSE [skip |-> TRUE, val |-> PyNull]
     ELSE [skip |-> FALSE, val |-> stored_embedding]

\* ResolveEmbedding without the try/except around json.loads: the text
\* that does not parse goes on to cosine_similarity.
ResolveEmbeddingUncaught(comp) ==
  LET stored_embedding == comp.embedding
  IN IF IsFalsy(stored_embedding) THEN [skip |-> TRUE, val |-> PyNull]
     ELSE IF stored_embedding.kind = "str"
       THEN LET parsed == JsonLoads(stored_embedding.text)
            IN IF parsed.ok THEN [skip |-> FALSE, val |-> parsed.val]
               ELSE [skip |-> FALSE, val |-> stored_embedding]
     ELSE [skip |-> FALSE, val |-> stored_embedding]

\* Lines 165-174 of the loop body: the stored embedding of a candidate as
\* the scan uses it; skip is TRUE where the loop continues.
ResolveEmbedding(comp) ==
  LET stored_embedding == comp.embedding
  IN IF IsFalsy(stored_embedding) THEN [skip |-> TRUE, val |-> PyNull]
     ELSE IF stored_embedding.kind = "str"
       THEN LET parsed == JsonLoads(stored_embedding.text)
            IN IF parsed.ok THEN [skip |-> FALSE, val |-> parsed.val]
               ELSE [skip |-> TRUE, val |-> PyNull]
     ELSE [skip |-> FALSE, val |-> stored_embedding]

\* The three signals and the fused score of one candidate (lines 177-181).
Signals(comp, stored, new_embedding, new_category, new_location) ==
  LET text == cosine_similarity(new_embedding, stored)
      loc_sim == location_similarity(new_location, comp.location)
      cat_match == CategoryMatch(new_category, comp.category)
  IN [ok |-> text.ok,
      text_sim |-> text.v,
      loc_sim |-> loc_sim,
      cat_match |-> cat_match,
      score |-> ScoreMicro(text.v, loc_sim, cat_match)]

\* The best-match record of lines 185-197.
MatchRecord(comp, sig, new_category, new_location) ==
  [complaint |-> comp,
   similarity_score |-> Round4(sig.score),
   text_similarity |-> Round4(sig.text_sim),
   location_similarity |-> Round4(sig.loc_sim),
   category_match |-> sig.cat_match,
   factor_scores |-> factor_scores(sig.text_sim, sig.loc_sim, sig.cat_match),
   reasoning |-> build_reasoning(sig.score, sig.text_sim, sig.loc_sim, sig.cat_match,
                                 new_location, comp.location,
                                 new_category, comp.category)]

\* Whether the scan computes a fused score for this candidate.
IsScored(comp, new_embedding) ==
  LET r == ResolveEmbedding(comp)
  IN ~r.skip /\ cosine_similarity(new_embedding, r.val).ok

\* Improves with >= for >: among equal scores the last candidate wins.
ImprovesTiesLast(score, best) == score >= best

\* Whether `score > best_score` replaces the best match.
Improves(score, best) == score > best

\* ScanStep that replaces the candidate and the scores of the best match
\* but keeps the reasoning written for the earlier best candidate.
ScanStepKeepsReasoning(st, comp, new_embedding, new_category, new_location) ==
  LET r == ResolveEmbedding(comp)
      sig == Signals(comp, r.val, new_embedding, new_category, new_location)
      fresh == MatchRecord(comp, sig, new_category, new_location)
  IN IF st.raised \/ r.skip THEN st
     ELSE IF ~sig.ok THEN [st EXCEPT !.raised = TRUE]
     ELSE IF Improves(sig.score, st.best_score)
       THEN [best_score |-> sig.score,
             best_match |-> IF st.best_match = <<>> THEN <<fresh>>
                            ELSE <<[fresh EXCEPT !.reasoning = st.best_match[1].reasoning]>>,
             raised |-> FALSE]
     ELSE st

\* One iteration of the loop of lines 163-197 on the scan state
\* [best_score, best_match, raised]; best_match is <<>> for None.
ScanStep(st, comp, new_embedding, new_category, new_location) ==
  LET r == ResolveEmbedding(comp)
      sig == Signals(comp, r.val, new_embedding, new_category, new_location)
  IN IF st.raised \/ r.skip THEN st
     ELSE IF ~sig.ok THEN [st EXCEPT !.raised = TRUE]
     ELSE IF Improves(sig.score, st.best_score)
       THEN [best_score |-> sig.score,
             best_match |-> <<MatchRecord(comp, sig, new_category, new_location)>>,
             raised |-> FALSE]
     ELSE st

\* The scan state of line 160-161.
ScanInit == [best_score |-> 0, best_match |-> <<>>, raised |-> FALSE]

\* Lines 199-202: what the call returns after the loop.
\* FinalResult without the threshold test of line 199: the best match is
\* returned whatever it scores.
FinalResultAnyScore(st, threshold) ==
  IF st.raised THEN [kind |-> "error", match |-> <<>>]
  ELSE IF st.best_match # <<>>
    THEN [kind |-> "match", match |-> st.best_match]
  ELSE [kind |-> "none", match |-> <<>>]

FinalResult(st, threshold) ==
  IF st.raised THEN [kind |-> "error", match |-> <<>>]
  ELSE IF st.best_match # <<>> /\ st.best_match[1].similarity_score >= threshold
    THEN [kind |-> "match", match |-> st.best_match]
  ELSE [kind |-> "none", match |-> <<>>]

RECURSIVE ScanAll(_, _, _, _, _)
\* The loop over a candidate list, from a scan state.
ScanAll(st, comps, new_embedding, new_category, new_location) ==
  IF comps = <<>> THEN st
  ELSE ScanAll(ScanStep(st, Head(comps), new_embedding, new_category, new_location),
               Tail(comps), new_embedding, new_category, new_location)

\* check_duplicate as a function of its arguments and of what the embedding
\* provider answers: <<>> when it fails, <<vector>> otherwise.
check_duplicate(new_category, new_location, existing, threshold, provided) ==
  IF existing = <<>> THEN [kind |-> "none", match |-> <<>>]
  ELSE IF provided = <<>> THEN [kind |-> "error", match |-> <<>>]
  ELSE FinalResult(ScanAll(ScanInit, existing, PyList(provided[1]),
                           new_category, new_location), threshold)

(***************************************************************************)
(* Bounds and input sets                                                   *)
(***************************************************************************)
\* The longest candidate list a call of check_duplicate is given.
MaxCandidates == 2

\* How many submit_complaint requests a behaviour starts.
MaxRequests == 3

\* How many update_status requests a behaviour handles.
MaxUpdates == 1

\* The row limit of the select of submit_complaint, .limit(500), scaled to
\* the size of the tables of the model.
FetchLimit == 1

\* duplicate_threshold of Settings: 0.75.
DefaultThreshold == 750000

\* The thresholds a call is given: 0.0, 0.6308, the default and 1.0.
Thresholds == {0, 630800, DefaultThreshold, Scale}

LocAB == <<"a", " ", "b">>

LocBA == <<"B", ",", " ", "a">>

LocA == <<"a">>

LocC == <<"c">>

CatRoad == <<"r">>

CatRoadUpper == <<"R", " ">>

CatDrain == <<"d">>

\* What the embedding provider answers for a new complaint.
ProviderVectors == {<<1, 0>>, <<3, 4>>}

\* A stored embedding text json.loads rejects: "[1, 0" cut short.
MalformedText == <<"[", "1", ",", " ", "0">>

\* The category, location and stored embedding of the candidates drawn.
CandidateShapes ==
  {<<CatRoadUpper, LocBA, PyList(<<1, 0>>)>>,
   <<CatRoad, LocAB, PyStr(JsonDumps(<<3, 4>>))>>,
   <<CatDrain, LocA, PyList(<<4, 3>>)>>,
   <<CatRoad, LocAB, PyList(<<5, 12>>)>>,
   <<CatRoad, LocAB, PyNull>>,
   <<CatRoad, LocAB, PyStr(MalformedText)>>,
   <<CatRoad, LocAB, PyList(<<1, 0, 0>>)>>,
   <<CatDrain, LocC, PyList(<<0, 0>>)>>,
   <<CatDrain, LocC, PyList(<<-3, 4>>)>>}

\* A candidate row: the fields of the select of submit_complaint that the
\* scan reads, and the row's id.
Candidate(id, shape) ==
  [id |-> id, category |-> shape[1], location |-> shape[2], embedding |-> shape[3],
   status |-> "registered"]

\* The candidate lists drawn: every list of at most MaxCandidates shapes,
\* the candidate at position i having id i.
CandidateLists ==
  UNION {{[i \in 1..n |-> Candidate(i, f[i])] : f \in [1..n -> CandidateShapes]} :
           n \in 0..MaxCandidates}

(***************************************************************************)
(* State                                                                   *)
(***************************************************************************)
VARIABLES
  existing_complaints,  \* check_duplicate: the candidate list of the call
  new_category,         \* check_duplicate: category of the new complaint
  new_location,         \* check_duplicate: location of the new complaint
  threshold,            \* check_duplicate: the threshold of the call
  pc,                   \* check_duplicate: "call", "scan", "done"
  idx,                  \* position of the loop in existing_complaints
  new_embedding,        \* <<>> before generate_embedding returned, else <<vector>>
  scan,                 \* [best_score, best_match, raised]
  result,               \* [kind: "pending" | "none" | "match" | "error", match]
  embedCalls,           \* how often the call invoked generate_embedding
  scored,               \* ids of the candidates combined_score was computed for
  complaints,           \* table complaints: the rows, in insertion order
  duplicate_links,      \* table duplicate_links: the rows, in insertion order
  complaint_comments,   \* table complaint_comments: the rows, in insertion order
  proc,                 \* per worker: the submit_complaint request it handles
  requests,             \* how many submit_complaint requests were started
  updates,              \* how many update_status requests were handled
  call,                 \* a pure function applied on its own: [fn, args]
  ret,                  \* what it returned: <<>> before the return, else <<value>>
  admin_response,       \* the last request to an /admin endpoint and its answer
  adminCalls,           \* how many requests to /admin endpoints were handled
  profiles,             \* table profiles: [email, role] rows
  api_response,         \* the last register or track request and its answer
  apiCalls              \* how many register and track requests were handled

cdVars == <<existing_complaints, new_category, new_location, threshold, pc, idx,
            new_embedding, scan, result, embedCalls, scored>>

dbVars == <<complaints, duplicate_links, complaint_comments>>

appVars == <<dbVars, proc, requests, updates>>

fnVars == <<call, ret>>

adminVars == <<admin_response, adminCalls>>

apiVars == <<profiles, api_response, apiCalls>>

vars == <<cdVars, appVars, fnVars, adminVars, apiVars>>

Pending == [kind |-> "pending", match |-> <<>>]

(***************************************************************************)
(* The request handlers: state                                             *)
(***************************************************************************)
\* The workers that handle submit_complaint requests.
Procs == {"w1", "w2"}

\* The worker that handles the requests one after the other.
SeqProcs == {"w1"}

\* The category and location of the complaints submitted.
Bodies == {<<CatRoad, LocAB>>, <<CatRoadUpper, LocBA>>}

\* What the embedding provider answers to the request handlers.
AppVectors == {<<1, 0>>, <<0, 1>>}

\* The year datetime.now gives while the requests are handled.
Years == {2026}

\* What uuid.uuid4().int gives in submit_complaint: integers that all differ,
\* two of them with the same first five decimal digits.
UuidInts == {1234567, 1234589, 7654321}

\* The statuses an admin sets.
StatusChoices == {"verified", "rejected"}

\* A worker that handles no request. Of a request it holds: pc, where the
\* handler is; category and location of the body; existing, the rows
\* fetched; provided, what the provider answered inside check_duplicate;
\* duplicate, what check_duplicate returned; embedding, the embedding to
\* store; response, what the request answered. For the properties it also
\* records, as of the fetch: eligible, the ids of the rows not rejected, and
\* rows0 and links0, the sizes of complaints and duplicate_links.
IdleProc ==
  [pc |-> "idle", category |-> <<>>, location |-> <<>>, existing |-> <<>>,
   provided |-> <<>>, duplicate |-> Pending, embedding |-> <<>>,
   response |-> "none", eligible |-> {}, rows0 |-> 0, links0 |-> 0]

\* The tables are empty and no request is in progress.
AppIdle ==
  /\ complaints = <<>>
  /\ duplicate_links = <<>>
  /\ complaint_comments = <<>>
  /\ proc = [p \in Procs |-> IdleProc]
  /\ requests = 0
  /\ updates = 0

\* No pure function is applied on its own.
FnIdle ==
  /\ call = [fn |-> "none", args |-> <<>>]
  /\ ret = <<>>

\* No request to an /admin endpoint was made.
AdminIdle ==
  /\ admin_response = [endpoint |-> "none", role |-> "none", code |-> 0, before |-> <<>>]
  /\ adminCalls = 0

\* No register or track request was made; no profile exists.
ApiIdle ==
  /\ profiles = <<>>
  /\ api_response = [endpoint |-> "none", request |-> <<>>, code |-> 0, body |-> <<>>]
  /\ apiCalls = 0

(***************************************************************************)
(* check_duplicate, step by step                                           *)
(***************************************************************************)
CDInit ==
  /\ existing_complaints \in CandidateLists
  /\ new_category \in {CatRoad}
  /\ new_location \in {LocAB, <<>>}
  /\ threshold \in Thresholds
  /\ pc = "call"
  /\ idx = 1
  /\ new_embedding = <<>>
  /\ scan = ScanInit
  /\ result = Pending
  /\ embedCalls = 0
  /\ scored = {}
  /\ AppIdle
  /\ FnIdle
  /\ AdminIdle
  /\ ApiIdle

\* Lines 153-154: an empty candidate list returns None at once.
CDReturnEmpty ==
  /\ pc = "call"
  /\ existing_complaints = <<>>
  /\ pc' = "done"
  /\ result' = [kind |-> "none", match |-> <<>>]
  /\ UNCHANGED <<apiVars, appVars, fnVars, adminVars, existing_complaints, new_category, new_location, threshold, idx,
                 new_embedding, scan, embedCalls, scored>>

\* CDGenerateEmbedding without the early return of lines 153-154 before it.
CDGenerateEmbeddingBeforeEmptyCheck ==
  /\ pc = "call"
  /\ \E v \in ProviderVectors : new_embedding' = <<v>>
  /\ embedCalls' = embedCalls + 1
  /\ scan' = ScanInit
  /\ pc' = "scan"
  /\ UNCHANGED <<apiVars, appVars, fnVars, adminVars, existing_complaints, new_category, new_location, threshold, idx,
                 result, scored>>

\* Lines 157-161: generate_embedding answers a vector.
CDGenerateEmbedding ==
  /\ pc = "call"
  /\ existing_complaints # <<>>
  /\ \E v \in ProviderVectors : new_embedding' = <<v>>
  /\ embedCalls' = embedCalls + 1
  /\ scan' = ScanInit
  /\ pc' = "scan"
  /\ UNCHANGED <<apiVars, appVars, fnVars, adminVars, existing_complaints, new_category, new_location, threshold, idx,
                 result, scored>>

\* CDEmbeddingFails with the exception swallowed: the call returns None.
CDEmbeddingFailsSilently ==
  /\ pc = "call"
  /\ existing_complaints # <<>>
  /\ embedCalls' = embedCalls + 1
  /\ pc' = "done"
  /\ result' = [kind |-> "none", match |-> <<>>]
  /\ UNCHANGED <<apiVars, appVars, fnVars, adminVars, existing_complaints, new_category, new_location, threshold, idx,
                 new_embedding, scan, scored>>

\* Line 158: generate_embedding raises; the exception leaves check_duplicate.
CDEmbeddingFails ==
  /\ pc = "call"
  /\ existing_complaints # <<>>
  /\ embedCalls' = embedCalls + 1
  /\ pc' = "done"
  /\ result' = [kind |-> "error", match |-> <<>>]
  /\ UNCHANGED <<apiVars, appVars, fnVars, adminVars, existing_complaints, new_category, new_location, threshold, idx,
                 new_embedding, scan, scored>>

\* CDScanCandidate with generate_embedding called inside the loop.
CDScanCandidateReembeds ==
  /\ pc = "scan"
  /\ idx <= Len(existing_complaints)
  /\ LET comp == existing_complaints[idx]
         emb == PyList(new_embedding[1])
         st == ScanStep(scan, comp, emb, new_category, new_location)
     IN /\ scan' = st
        /\ scored' = IF IsScored(comp, emb) THEN scored \cup {comp.id} ELSE scored
        /\ IF st.raised
             THEN /\ pc' = "done"
                  /\ result' = FinalResult(st, threshold)
                  /\ idx' = idx
             ELSE /\ pc' = "scan"
                  /\ result' = result
                  /\ idx' = idx + 1
  /\ embedCalls' = embedCalls + 1
  /\ UNCHANGED <<apiVars, appVars, fnVars, adminVars, existing_complaints, new_category, new_location, threshold,
                 new_embedding>>

\* CDScanCandidate with the deserialized embedding written back into the
\* candidate (comp["embedding"] = json.loads(...)).
CDScanCandidateStoresParsed ==
  /\ pc = "scan"
  /\ idx <= Len(existing_complaints)
  /\ LET comp == existing_complaints[idx]
         emb == PyList(new_embedding[1])
         st == ScanStep(scan, comp, emb, new_category, new_location)
         r == ResolveEmbedding(comp)
     IN /\ scan' = st
        /\ scored' = IF IsScored(comp, emb) THEN scored \cup {comp.id} ELSE scored
        /\ existing_complaints' =
             IF r.skip THEN existing_complaints
             ELSE [existing_complaints EXCEPT ![idx].embedding = r.val]
        /\ IF st.raised
             THEN /\ pc' = "done"
                  /\ result' = FinalResult(st, threshold)
                  /\ idx' = idx
             ELSE /\ pc' = "scan"
                  /\ result' = result
                  /\ idx' = idx + 1
  /\ UNCHANGED <<apiVars, appVars, fnVars, adminVars, new_category, new_location, threshold,
                 new_embedding, embedCalls>>

\* Lines 163-197: one iteration of the loop.
CDScanCandidate ==
  /\ pc = "scan"
  /\ idx <= Len(existing_complaints)
  /\ LET comp == existing_complaints[idx]
         emb == PyList(new_embedding[1])
         st == ScanStep(scan, comp, emb, new_category, new_location)
     IN /\ scan' = st
        /\ scored' = IF IsScored(comp, emb) THEN scored \cup {comp.id} ELSE scored
        /\ IF st.raised
             THEN /\ pc' = "done"
                  /\ result' = FinalResult(st, threshold)
                  /\ idx' = idx
             ELSE /\ pc' = "scan"
                  /\ result' = result
                  /\ idx' = idx + 1
  /\ UNCHANGED <<apiVars, appVars, fnVars, adminVars, existing_complaints, new_category, new_location, threshold,
                 new_embedding, embedCalls>>

\* Lines 199-202: after the loop.
CDReturn ==
  /\ pc = "scan"
  /\ idx > Len(existing_complaints)
  /\ pc' = "done"
  /\ result' = FinalResult(scan, threshold)
  /\ UNCHANGED <<apiVars, appVars, fnVars, adminVars, existing_complaints, new_category, new_location, threshold, idx,
                 new_embedding, scan, embedCalls, scored>>

CDNext ==
  \/ CDReturnEmpty
  \/ CDGenerateEmbedding
  \/ CDEmbeddingFails
  \/ CDScanCandidate
  \/ CDReturn

\* One call of check_duplicate on every input drawn.
CDSpec == CDInit /\ [][CDNext]_vars

(***************************************************************************)
(* submit_complaint and update_status, step by step                        *)
(***************************************************************************)
\* FetchExisting without .neq("status", "rejected").
FetchExistingAnyStatus(rows) == SubSeq(rows, 1, Min2(Len(rows), FetchLimit))

\* .neq("status", "rejected").limit(500): the rows that are not rejected,
\* in table order, cut to the limit.
FetchExisting(rows) ==
  LET kept == SelectSeq(rows, LAMBDA row : row.status # "rejected")
  IN SubSeq(kept, 1, Min2(Len(kept), FetchLimit))

\* The ids of the rows the filter of the select lets through.
NotRejectedIds(rows) == {rows[i].id : i \in {j \in 1..Len(rows) : rows[j].status # "rejected"}}

\* Lines 54-63: a worker takes a request and fetches the existing complaints.
SubmitFetch(p) ==
  /\ proc[p].pc \in {"idle", "done"}
  /\ requests < MaxRequests
  /\ \E body \in Bodies :
       proc' = [proc EXCEPT ![p] =
                  [IdleProc EXCEPT !.pc = "check",
                                   !.category = body[1],
                                   !.location = body[2],
                                   !.existing = FetchExisting(complaints),
                                   !.eligible = NotRejectedIds(complaints),
                                   !.rows0 = Len(complaints),
                                   !.links0 = Len(duplicate_links)]]
  /\ requests' = requests + 1
  /\ UNCHANGED <<apiVars, cdVars, fnVars, adminVars, dbVars, updates>>

\* AfterCheck with the duplicate branch never taken.
AfterCheckIgnoresDuplicate(duplicate) == "embed"

\* Where the request goes after check_duplicate returned `duplicate`
\* (line 75).
AfterCheck(duplicate) == IF duplicate.kind = "match" THEN "log_duplicate" ELSE "embed"

\* Lines 66-75: check_duplicate returns; the provider, if the call invokes
\* it, answers a vector.
SubmitCheck(p) ==
  /\ proc[p].pc = "check"
  /\ \E v \in AppVectors :
       LET provided == IF proc[p].existing = <<>> THEN <<>> ELSE <<v>>
           duplicate == check_duplicate(proc[p].category, proc[p].location,
                                        proc[p].existing, DefaultThreshold, <<v>>)
       IN /\ duplicate.kind # "error"
          /\ proc' = [proc EXCEPT ![p].provided = provided,
                                  ![p].duplicate = duplicate,
                                  ![p].pc = AfterCheck(duplicate)]
  /\ UNCHANGED <<apiVars, cdVars, fnVars, adminVars, dbVars, requests, updates>>

\* Lines 66-73: check_duplicate raises (the provider fails, or the scan
\* raises on what the provider answered); the request ends with an error
\* response.
SubmitCheckFails(p) ==
  /\ proc[p].pc = "check"
  /\ \E provided \in {<<>>} \cup {<<v>> : v \in AppVectors} :
       /\ check_duplicate(proc[p].category, proc[p].location, proc[p].existing,
                          DefaultThreshold, provided).kind = "error"
       /\ proc' = [proc EXCEPT ![p].provided = provided,
                               ![p].duplicate = [kind |-> "error", match |-> <<>>],
                               ![p].response = "error",
                               ![p].pc = "done"]
  /\ UNCHANGED <<apiVars, cdVars, fnVars, adminVars, dbVars, requests, updates>>

\* The duplicate_links row of lines 80-89.
LinkRow(duplicate) ==
  [original_complaint_id |-> duplicate.match[1].complaint.id,
   similarity_score |-> duplicate.match[1].similarity_score,
   factor_scores |-> duplicate.match[1].factor_scores,
   reasoning |-> duplicate.match[1].reasoning]

\* SubmitLogDuplicate storing the duplicate as a complaint as well.
SubmitLogDuplicateAlsoRegisters(p) ==
  /\ proc[p].pc = "log_duplicate"
  /\ LET link == LinkRow(proc[p].duplicate)
     IN /\ duplicate_links' = Append(duplicate_links, link)
        /\ complaints' = Append(complaints,
                                [id |-> Len(complaints) + 1,
                                 category |-> proc[p].category,
                                 location |-> proc[p].location,
                                 embedding |-> PyNull,
                                 status |-> "registered"])
        /\ proc' = [proc EXCEPT ![p].response = "duplicate",
                                ![p].pc = "done"]
  /\ UNCHANGED <<apiVars, cdVars, fnVars, adminVars, complaint_comments, requests, updates>>

\* Lines 75-106: the duplicate is logged and reported.
SubmitLogDuplicate(p) ==
  /\ proc[p].pc = "log_duplicate"
  /\ LET link == LinkRow(proc[p].duplicate)
     IN /\ duplicate_links' = Append(duplicate_links, link)
        /\ proc' = [proc EXCEPT ![p].response = "duplicate",
                                ![p].pc = "done"]
  /\ UNCHANGED <<apiVars, cdVars, fnVars, adminVars, complaints, complaint_comments, requests, updates>>

\* Lines 110-111: generate_embedding answers the embedding to store.
SubmitEmbed(p) ==
  /\ proc[p].pc = "embed"
  /\ \E v \in AppVectors :
       proc' = [proc EXCEPT ![p].embedding = <<v>>, ![p].pc = "insert"]
  /\ UNCHANGED <<apiVars, cdVars, fnVars, adminVars, dbVars, requests, updates>>

\* SubmitEmbedFails with the failure swallowed: the complaint is stored
\* without an embedding.
SubmitEmbedFailsStoresWithoutEmbedding(p) ==
  /\ proc[p].pc = "embed"
  /\ complaints' = Append(complaints,
                          [id |-> Len(complaints) + 1,
                           category |-> proc[p].category,
                           location |-> proc[p].location,
                           embedding |-> PyNull,
                           status |-> "registered"])
  /\ proc' = [proc EXCEPT ![p].response = "registered", ![p].pc = "done"]
  /\ UNCHANGED <<apiVars, cdVars, fnVars, adminVars, duplicate_links, complaint_comments, requests, updates>>

\* Line 111: generate_embedding raises; the request ends with an error.
SubmitEmbedFails(p) ==
  /\ proc[p].pc = "embed"
  /\ proc' = [proc EXCEPT ![p].response = "error", ![p].pc = "done"]
  /\ UNCHANGED <<apiVars, cdVars, fnVars, adminVars, dbVars, requests, updates>>

\* _make_reference_id: "GRV-", the year, "-" and the first five decimal
\* digits of the integer of a fresh UUID.
make_reference_id(year, uuid_int) ==
  LET short == SubSeq(NatToStr(uuid_int), 1, Min2(5, Len(NatToStr(uuid_int))))
  IN <<"G", "R", "V", "-">> \o NatToStr(year) \o <<"-">> \o short

\* The complaints row of lines 116-132.
NewComplaint(id, reference_id, category, location, embedding) ==
  [id |-> id, reference_id |-> reference_id, category |-> category, location |-> location,
   embedding |-> PyStr(JsonDumps(embedding)), status |-> "registered"]

\* Lines 113-144: the row is inserted and reported.
SubmitInsert(p) ==
  /\ proc[p].pc = "insert"
  /\ \E year \in Years, uuid_int \in UuidInts :
       LET row == NewComplaint(Len(complaints) + 1, make_reference_id(year, uuid_int),
                               proc[p].category, proc[p].location, proc[p].embedding[1])
       IN /\ complaints' = Append(complaints, row)
          /\ proc' = [proc EXCEPT ![p].response = "registered",
                                  ![p].pc = "done"]
  /\ UNCHANGED <<apiVars, cdVars, fnVars, adminVars, duplicate_links, complaint_comments, requests, updates>>

\* Lines 134-136: the insert returns no data; the request ends with 500.
SubmitInsertFails(p) ==
  /\ proc[p].pc = "insert"
  /\ proc' = [proc EXCEPT ![p].response = "error", ![p].pc = "done"]
  /\ UNCHANGED <<apiVars, cdVars, fnVars, adminVars, dbVars, requests, updates>>

\* update_status for an existing complaint: the status is set and the
\* automatic comment is added.
UpdateStatus ==
  /\ updates < MaxUpdates
  /\ \E i \in 1..Len(complaints), s \in StatusChoices :
       /\ complaints' = [complaints EXCEPT ![i].status = s]
       /\ complaint_comments' =
            Append(complaint_comments, [complaint_id |-> complaints[i].id, content |-> s])
  /\ updates' = updates + 1
  /\ UNCHANGED <<apiVars, cdVars, fnVars, adminVars, duplicate_links, proc, requests>>

Next ==
  \/ \E p \in SeqProcs :
       \/ SubmitFetch(p)
       \/ SubmitCheck(p)
       \/ SubmitCheckFails(p)
       \/ SubmitLogDuplicate(p)
       \/ SubmitEmbed(p)
       \/ SubmitEmbedFails(p)
       \/ SubmitInsert(p)
       \/ SubmitInsertFails(p)
  \/ UpdateStatus

\* The check_duplicate variables, unused by the request handlers.
CDIdle ==
  /\ existing_complaints = <<>>
  /\ new_category = <<>>
  /\ new_location = <<>>
  /\ threshold = DefaultThreshold
  /\ pc = "done"
  /\ idx = 1
  /\ new_embedding = <<>>
  /\ scan = ScanInit
  /\ result = Pending
  /\ embedCalls = 0
  /\ scored = {}

Init == CDIdle /\ AppIdle /\ FnIdle /\ AdminIdle /\ ApiIdle

\* The request handlers on the tables, from empty tables.
Spec == Init /\ [][Next]_vars

(***************************************************************************)
(* Two submit_complaint requests handled concurrently                      *)
(***************************************************************************)
\* Worker p takes its one request.
RaceFetch(p) == proc[p].pc = "idle" /\ SubmitFetch(p)

\* Two workers, one request each; the steps of the two handlers interleave
\* at every database access and provider call (the awaits and the blocking
\* calls of two server processes).
RaceNext ==
  \E p \in Procs :
    \/ RaceFetch(p)
    \/ SubmitCheck(p)
    \/ SubmitCheckFails(p)
    \/ SubmitLogDuplicate(p)
    \/ SubmitEmbed(p)
    \/ SubmitEmbedFails(p)
    \/ SubmitInsert(p)
    \/ SubmitInsertFails(p)

RaceSpec == Init /\ [][RaceNext]_vars

(***************************************************************************)
(* The pure functions, each applied on its own                             *)
(***************************************************************************)
LocBlank == <<" ">>

LocPunct == <<",">>

LocABC == <<"a", " ", "b", " ", "c">>

LocAA == <<"a", " ", " ", "a">>

LocTab == <<"a", "\t", "b">>

LocAC == <<"a", " ", "c">>

\* The location strings drawn: "", " ", ",", "a", "c", "a b", "B, a",
\* "a c", "a b c", "a  a" and "a<TAB>b".
LocStrings ==
  {<<>>, LocBlank, LocPunct, LocA, LocC, LocAB, LocBA, LocAC, LocABC, LocAA, LocTab}

\* The calls of location_similarity drawn.
LocationCalls == {[fn |-> "location_similarity", args |-> <<a, b>>] : a, b \in LocStrings}

\* The text similarities drawn: 0.0, 1.0, the values on either side of the
\* 0.50 and 0.70 display thresholds, and cosines the scan meets (7/25, 5/13
\* and 24/25).
TextGrid == {0, 280000, 384615, 499999, 500000, 699999, 700000, 960000, Scale}

\* The location similarities drawn: 0.0, 1.0, the values on either side of
\* 0.30 and 0.60, and 1/3 and 1/2.
LocGrid == {0, 299999, 300000, 333333, 500000, 599999, 600000, Scale}

ScoreCalls ==
  {[fn |-> "combined_score", args |-> <<t, l, c>>] : t \in TextGrid, l \in LocGrid, c \in BOOLEAN}

\* build_reasoning, with the score combined_score gives the signals.
ReasoningCalls ==
  {[fn |-> "build_reasoning", args |-> <<ScoreMicro(t, l, c), t, l, c>>] : t \in TextGrid, l \in LocGrid, c \in BOOLEAN}

\* The vectors cosine_similarity is called on: the zero vector, small
\* vectors, and vectors of large components (2^100 is about 1.27e30, within
\* the range of np.float32).
CosineVectors ==
  {PyList(<<0, 0>>), PyList(<<1, 0>>), PyList(<<3, 4>>), PyList(<<-3, 4>>), PyList(<<0, 0, 0>>), PyFloats(<<3, 4>>, 60), PyFloats(<<1, 0>>, 100)}

CosineCalls == {[fn |-> "cosine_similarity", args |-> <<a, b>>] : a, b \in CosineVectors}

\* The calls drawn.
FnCalls == LocationCalls \cup ScoreCalls \cup ReasoningCalls \cup CosineCalls

\* One call of one function, on every input drawn.
FnInit ==
  /\ CDIdle
  /\ AppIdle
  /\ AdminIdle
  /\ ApiIdle
  /\ call \in FnCalls
  /\ ret = <<>>

\* The function returns.
Return(value) ==
  /\ ret = <<>>
  /\ ret' = <<value>>
  /\ UNCHANGED <<apiVars, cdVars, appVars, adminVars, call>>

CallLocationSimilarity ==
  /\ call.fn = "location_similarity"
  /\ Return(location_similarity(call.args[1], call.args[2]))

CallCombinedScore ==
  /\ call.fn = "combined_score"
  /\ Return(combined_score(call.args[1], call.args[2], call.args[3]))

CallBuildReasoning ==
  /\ call.fn = "build_reasoning"
  /\ Return(build_reasoning(call.args[1], call.args[2], call.args[3], call.args[4], LocAB, LocBA, CatRoad, CatDrain))

CallCosineSimilarity ==
  /\ call.fn = "cosine_similarity"
  /\ Return(cosine_similarity(call.args[1], call.args[2]))

FnNext ==
  \/ CallLocationSimilarity
  \/ CallCosineSimilarity
  \/ CallCombinedScore
  \/ CallBuildReasoning

FnSpec == FnInit /\ [][FnNext]_vars

(***************************************************************************)
(* The endpoints under /admin (backend/routes/admin.py)                    *)
(***************************************************************************)
\* How many requests to /admin endpoints a behaviour handles.
MaxAdminCalls == 2

\* The role of the profile of the caller: get_current_user found the
\* profile of a valid token.
Roles == {"admin", "citizen"}

\* The complaint ids of the requests: that of the first row and another.
ComplaintIds == {1, 2}

\* The bodies of add_comment.
CommentTexts == {"note"}

\* The tables when the requests start: no complaint, or one registered.
AdminInit ==
  /\ CDIdle
  /\ FnIdle
  /\ AdminIdle
  /\ ApiIdle
  /\ complaints \in {<<>>, <<NewComplaint(1, make_reference_id(2026, 1234567), CatRoad, LocAB, <<1, 0>>)>>}
  /\ duplicate_links = <<>>
  /\ complaint_comments = <<>>
  /\ proc = [p \in Procs |-> IdleProc]
  /\ requests = 0
  /\ updates = 0

\* require_admin: whether the dependency lets the caller through.
require_admin(role) == role = "admin"

\* A complaints row has the id.
ComplaintExists(complaint_id) == \E i \in 1..Len(complaints) : complaints[i].id = complaint_id

\* The request is answered with the status code; the tables as they were
\* when it arrived are kept for the properties.
Respond(endpoint, role, code) ==
  /\ adminCalls < MaxAdminCalls
  /\ adminCalls' = adminCalls + 1
  /\ admin_response' = [endpoint |-> endpoint, role |-> role, code |-> code, before |-> dbVars]
  /\ UNCHANGED <<apiVars, cdVars, fnVars, proc, requests, updates>>

\* An endpoint that reads the tables behind require_admin.
ReadAsAdmin(endpoint, role) ==
  /\ Respond(endpoint, role, IF require_admin(role) THEN 200 ELSE 403)
  /\ UNCHANGED dbVars

\* GET /admin/stats
get_stats == \E role \in Roles : ReadAsAdmin("get_stats", role)

\* GET /admin/complaints
list_complaints == \E role \in Roles : ReadAsAdmin("list_complaints", role)

\* GET /admin/complaints/{complaint_id}
get_complaint ==
  \E role \in Roles, complaint_id \in ComplaintIds :
    /\ Respond("get_complaint", role,
               IF ~require_admin(role) THEN 403
               ELSE IF ~ComplaintExists(complaint_id) THEN 404 ELSE 200)
    /\ UNCHANGED dbVars

\* PATCH /admin/complaints/{complaint_id}/status
update_status ==
  \E role \in Roles, complaint_id \in ComplaintIds, s \in StatusChoices :
    IF ~require_admin(role)
      THEN Respond("update_status", role, 403) /\ UNCHANGED dbVars
    ELSE IF ~ComplaintExists(complaint_id)
      THEN Respond("update_status", role, 404) /\ UNCHANGED dbVars
    ELSE /\ Respond("update_status", role, 200)
         /\ complaints' = [i \in 1..Len(complaints) |->
                             IF complaints[i].id = complaint_id
                               THEN [complaints[i] EXCEPT !.status = s]
                               ELSE complaints[i]]
         /\ complaint_comments' =
              Append(complaint_comments, [complaint_id |-> complaint_id, content |-> s])
         /\ UNCHANGED duplicate_links

\* POST /admin/complaints/{complaint_id}/comments: the dependency is
\* get_current_user, and the row is inserted whether or not a complaint
\* has the id.
add_comment ==
  \E role \in Roles, complaint_id \in ComplaintIds, content \in CommentTexts :
    /\ Respond("add_comment", role, 200)
    /\ complaint_comments' =
         Append(complaint_comments, [complaint_id |-> complaint_id, content |-> content])
    /\ UNCHANGED <<complaints, duplicate_links>>

\* GET /admin/duplicates
list_duplicates == \E role \in Roles : ReadAsAdmin("list_duplicates", role)

AdminNext ==
  \/ get_stats
  \/ list_complaints
  \/ get_complaint
  \/ update_status
  \/ add_comment
  \/ list_duplicates

AdminSpec == AdminInit /\ [][AdminNext]_vars

(***************************************************************************)
(* Tracking a complaint (backend/routes/complaints.py)                     *)
(***************************************************************************)
\* How many rows the complaints table has when the requests start.
MaxRows == 2

\* How many track requests a behaviour handles.
MaxApiCalls == 2

\* The content of the complaint stored as row id: each differs from the
\* others in category, location and embedding, so none is a duplicate.
RowContents == <<<<CatRoad, LocAB, <<1, 0>>>>, <<CatDrain, LocC, <<0, 1>>>>, <<CatDrain, LocA, <<3, 4>>>>>>

\* The tables successful submit_complaint requests leave: row i has id i
\* and the reference id _make_reference_id gave it.
RegisteredTables ==
  UNION {{[i \in 1..n |-> NewComplaint(i, make_reference_id(f[i][1], f[i][2]), RowContents[i][1],
                                        RowContents[i][2], RowContents[i][3])] :
            f \in [1..n -> Years \X UuidInts]} : n \in 0..MaxRows}

\* The reference ids of the track requests: those submit_complaint gives,
\* one of them in lower case, and one no row has.
TrackInputs ==
  {make_reference_id(year, uuid_int) : year \in Years, uuid_int \in UuidInts}
    \cup {<<"g", "r", "v">> \o SubSeq(make_reference_id(2026, 1234567), 4, 14),
          make_reference_id(2026, 99999)}

\* _row_to_out: the fields of ComplaintOut, those the model's rows carry.
row_to_out(row) ==
  [id |-> row.id, reference_id |-> row.reference_id, category |-> row.category,
   location |-> row.location, status |-> row.status]

\* GET /complaints/track/{reference_id}: the row whose reference_id is the
\* upper-cased path parameter, as ComplaintOut; 404 when the select gives
\* no data. single() asks for exactly one row: with several rows the client
\* raises, and the request fails.
track_complaint ==
  \E reference_id \in TrackInputs :
    /\ apiCalls < MaxApiCalls
    /\ apiCalls' = apiCalls + 1
    /\ LET found == SelectSeq(complaints, LAMBDA row : row.reference_id = UpperStr(reference_id))
           answer(code, body) ==
             [endpoint |-> "track_complaint", request |-> reference_id, code |-> code,
              body |-> body]
       IN api_response' =
            IF Len(found) = 0 THEN answer(404, <<>>)
            ELSE IF Len(found) > 1 THEN answer(500, <<>>)
            ELSE answer(200, <<row_to_out(found[1])>>)
    /\ UNCHANGED <<cdVars, appVars, fnVars, adminVars, profiles>>

\* The tables submit_complaint left; no request was made yet.
TrackInit ==
  /\ CDIdle
  /\ FnIdle
  /\ AdminIdle
  /\ ApiIdle
  /\ complaints \in RegisteredTables
  /\ duplicate_links = <<>>
  /\ complaint_comments = <<>>
  /\ proc = [p \in Procs |-> IdleProc]
  /\ requests = 0
  /\ updates = 0

TrackNext ==
  \/ update_status
  \/ add_comment
  \/ track_complaint

\* Status updates, comments and track requests on registered complaints.
TrackSpec == TrackInit /\ [][TrackNext]_vars

(***************************************************************************)
(* Registration (backend/routes/auth.py)                                   *)
(***************************************************************************)
\* How many register requests a behaviour handles.
MaxRegisters == 3

\* The emails of the register requests.
Emails == {"admin@x", "a@x", "b@x", "c@x"}

\* The profiles when the requests start: none, or the administrator's.
SeededProfiles == {<<>>, <<[email |-> "admin@x", role |-> "admin"]>>}

\* A profiles row has the email.
EmailRegistered(email) == \E i \in 1..Len(profiles) : profiles[i].email = email

\* The register request is answered.
RegisterAnswer(email, code, body) ==
  /\ apiCalls' = apiCalls + 1
  /\ api_response' = [endpoint |-> "register", request |-> email, code |-> code, body |-> body]
  /\ UNCHANGED <<cdVars, appVars, fnVars, adminVars>>

\* register as it would be without the check of lines 17-20.
registerWithoutEmailCheck ==
  \E email \in Emails :
    /\ apiCalls < MaxRegisters
    /\ \/ /\ profiles' = Append(profiles, [email |-> email, role |-> "citizen"])
          /\ RegisterAnswer(email, 201, <<[email |-> email, role |-> "citizen"]>>)
       \/ /\ RegisterAnswer(email, 500, <<>>)
          /\ UNCHANGED profiles

\* POST /auth/register: 409 when a profile has the email; else the profile
\* is inserted with role "citizen" and the request answers 201 with the
\* user, or 500 when the insert gives no data.
register ==
  \E email \in Emails :
    /\ apiCalls < MaxRegisters
    /\ IF EmailRegistered(email)
         THEN /\ RegisterAnswer(email, 409, <<>>)
              /\ UNCHANGED profiles
         ELSE \/ /\ profiles' = Append(profiles, [email |-> email, role |-> "citizen"])
                 /\ RegisterAnswer(email, 201, <<[email |-> email, role |-> "citizen"]>>)
              \/ /\ RegisterAnswer(email, 500, <<>>)
                 /\ UNCHANGED profiles

\* No request was made yet.
AuthInit ==
  /\ CDIdle
  /\ AppIdle
  /\ FnIdle
  /\ AdminIdle
  /\ profiles \in SeededProfiles
  /\ api_response = [endpoint |-> "none", request |-> <<>>, code |-> 0, body |-> <<>>]
  /\ apiCalls = 0

AuthNext == register

\* Register requests, each handled to completion before the next.
AuthSpec == AuthInit /\ [][AuthNext]_vars

(***************************************************************************)
(* Properties of check_duplicate (checked under CDSpec)                    *)
(***************************************************************************)
\* The embedding of the new complaint, once generate_embedding returned it.
NewEmb == PyList(new_embedding[1])

\* The fused score combined_score computes for a candidate, unrounded.
FusedScore(comp) ==
  Signals(comp, ResolveEmbedding(comp).val, NewEmb, new_category, new_location).score

\* The candidates of the call.
Candidates == {existing_complaints[i] : i \in 1..Len(existing_complaints)}

\* The candidate of the returned result.
Returned == result.match[1].complaint

\* The stored embedding is text that json.loads rejects.
IsMalformed(comp) ==
  comp.embedding.kind = "str" /\ ~JsonLoads(comp.embedding.text).ok

\* The stored embedding is a vector of another length than the new one.
IsMismatched(comp) ==
  LET r == ResolveEmbedding(comp)
  IN ~r.skip /\ r.val.kind = "list" /\ Len(r.val.vec) # Len(new_embedding[1])

\* C1: whenever check_duplicate returns a result, the unrounded fused score
\* of the returned candidate is at least the threshold of the call.
C1_ReturnedScoreClearsThreshold ==
  result.kind = "match" => FusedScore(Returned) >= threshold

\* C2: the returned candidate has the maximum fused score among the
\* candidates with a usable embedding, and is the first of those that tie
\* on the maximum.
C2_ReturnsFirstMaximum ==
  result.kind = "match" =>
    \A k \in 1..Len(existing_complaints) :
      LET other == existing_complaints[k]
      IN IsScored(other, NewEmb) =>
           /\ FusedScore(other) <= FusedScore(Returned)
           /\ (k < Returned.id => FusedScore(other) < FusedScore(Returned))

\* C2 happens: a result is returned for two scored candidates, the second
\* of them scoring strictly higher and being the one returned.
C2_Witness ==
  /\ result.kind = "match"
  /\ Len(existing_complaints) = 2
  /\ scored = {1, 2}
  /\ Returned.id = 2
  /\ FusedScore(existing_complaints[1]) > 0
  /\ FusedScore(existing_complaints[1]) < FusedScore(existing_complaints[2])

\* C3: a candidate without an embedding is never scored, is never the best
\* match during the scan and is never the candidate of the result.
C3_MissingEmbeddingSkipped ==
  \A comp \in Candidates :
    comp.embedding.kind = "null" =>
      /\ comp.id \notin scored
      /\ (scan.best_match # <<>> => scan.best_match[1].complaint.id # comp.id)
      /\ (result.kind = "match" => Returned.id # comp.id)

\* C3 happens: the scan went past a candidate without an embedding, which
\* matches the new complaint in category and location, and returned another.
C3_Witness ==
  /\ pc = "done"
  /\ result.kind = "match"
  /\ Len(existing_complaints) = 2
  /\ existing_complaints[1].embedding.kind = "null"
  /\ CategoryMatch(new_category, existing_complaints[1].category)
  /\ location_similarity(new_location, existing_complaints[1].location) = Scale
  /\ Returned.id = 2

\* The candidate list without the candidates whose embedding text does not
\* deserialize.
WithoutMalformed == SelectSeq(existing_complaints, LAMBDA comp : ~IsMalformed(comp))

C5_EmptyListNoProviderCall ==
  existing_complaints = <<>> =>
    /\ embedCalls = 0
    /\ (pc = "done" => result.kind = "none")

\* C5 happens: a call with an empty list has returned.
C5_Witness == pc = "done" /\ existing_complaints = <<>> /\ result.kind = "none"

\* C6: with a non-empty candidate list the embedding provider is invoked
\* exactly once, before any candidate is scored, however many candidates
\* there are and however many are skipped.
C6_ExactlyOneProviderCall ==
  existing_complaints # <<>> =>
    /\ (pc = "call" => embedCalls = 0 /\ scored = {})
    /\ (pc # "call" => embedCalls = 1)

\* C6 happens: a call on two candidates, one skipped and one scored, has
\* returned.
C6_Witness ==
  /\ pc = "done"
  /\ Len(existing_complaints) = 2
  /\ Cardinality(scored) = 1
  /\ result.kind # "error"
  /\ embedCalls = 1

\* The embedding provider was invoked and failed.
ProviderFailed == embedCalls > 0 /\ new_embedding = <<>>

\* C7: when the embedding provider fails, check_duplicate ends with the
\* error: it returns neither a match nor None, and no candidate is scored.
C7_ProviderFailurePropagates ==
  ProviderFailed => pc = "done" /\ result.kind = "error" /\ scored = {}

\* C7 happens: the provider failed on a call whose candidate would have
\* been returned.
C7_Witness ==
  /\ ProviderFailed
  /\ pc = "done"
  /\ Len(existing_complaints) = 1
  /\ existing_complaints[1].embedding = PyList(<<1, 0>>)

\* C8: a candidate whose stored vector has another length than the new
\* complaint's embedding does not make the call fail: the call returns
\* (a match or None) and the other candidates are still compared.
C8_DimensionMismatchTolerated ==
  (pc = "done" /\ new_embedding # <<>> /\ \E comp \in Candidates : IsMismatched(comp)) =>
    /\ result.kind \in {"none", "match"}
    /\ \A comp \in Candidates : IsScored(comp, NewEmb) => comp.id \in scored

\* C12: check_duplicate never changes the candidates it is given: at every
\* step of a call, whether it goes on to return a match, to return nothing
\* or to fail, the candidate list keeps its length and order and every
\* candidate its fields and values, an embedding stored as text included.
C12_CandidatesNeverChanged ==
  [][existing_complaints' = existing_complaints]_vars

\* C12 happens: a call deserialized and scored a candidate whose embedding
\* is stored as text, skipped another and returned, the list still holding
\* the text.
C12_Witness ==
  /\ pc = "done"
  /\ result.kind = "match"
  /\ Len(existing_complaints) = 2
  /\ existing_complaints[1].embedding.kind = "str"
  /\ 1 \in scored
  /\ 2 \notin scored
  /\ Returned.id = 1

\* Two strings are equal up to the case of their letters.
EqualIgnoringCase(s, t) ==
  /\ Len(s) = Len(t)
  /\ \A i \in 1..Len(s) : LowerChar(s[i]) = LowerChar(t[i])

\* The signals of candidate k of the call.
SignalsOf(k) ==
  LET comp == existing_complaints[k]
  IN Signals(comp, ResolveEmbedding(comp).val, NewEmb, new_category, new_location)

\* C19: the category signal of a candidate is true exactly when the new
\* category and the candidate's are equal after trimming surrounding
\* whitespace and ignoring letter case; it adds exactly 0.10 to the fused
\* score when true and nothing when false. The returned match reports it.
C19_CategorySignal ==
  /\ \A k \in scored :
       LET sig == SignalsOf(k)
           same == EqualIgnoringCase(StripStr(new_category), StripStr(existing_complaints[k].category))
       IN /\ sig.cat_match <=> same
          /\ sig.score = ScoreMicro(sig.text_sim, sig.loc_sim, FALSE) + (IF same THEN 100000 ELSE 0)
  /\ result.kind = "match" =>
       (result.match[1].category_match <=> SignalsOf(Returned.id).cat_match)

\* C19 happens: a call scored a candidate of another category and one
\* whose category differs from the new one in case and in a trailing space,
\* and returned the latter as a category match.
C19_Witness ==
  /\ pc = "done"
  /\ result.kind = "match"
  /\ scored = {1, 2}
  /\ existing_complaints[1].category = CatDrain
  /\ ~SignalsOf(1).cat_match
  /\ Returned.id = 2
  /\ Returned.category = CatRoadUpper
  /\ new_category = CatRoad
  /\ result.match[1].category_match

\* The three signals of the returned candidate are below the values at
\* which build_reasoning writes a sentence for them.
ReturnedBelowDisplay ==
  LET sig == Signals(Returned, ResolveEmbedding(Returned).val, NewEmb, new_category, new_location)
  IN sig.text_sim < 500000 /\ sig.loc_sim < 300000 /\ ~sig.cat_match

\* The fused score that signals below 0.50 and 0.30 without a category
\* match stay under: 0.60 * 0.50 + 0.30 * 0.30 = 0.39.
FallbackCeiling == (60 * 500000 + 30 * 300000) \div 100

\* C17 as stated: there are signals text_sim < 0.50 and loc_sim < 0.30,
\* the category not matching, whose fused score clears the default
\* threshold 0.75, so that check_duplicate called with it returns a match
\* explained by the fallback sentence.
C17_FallbackClearsDefaultThreshold ==
  \E text_sim \in TextGrid, loc_sim \in LocGrid :
    /\ text_sim < 500000
    /\ loc_sim < 300000
    /\ FinalResult([raised |-> FALSE, best_score |-> ScoreMicro(text_sim, loc_sim, FALSE), best_match |-> <<[similarity_score |-> Round4(ScoreMicro(text_sim, loc_sim, FALSE))]>>], DefaultThreshold).kind = "match"

\* C17 as amended: a match explained by the fallback sentence is returned
\* only by a call whose threshold is at most 0.39, never by a call with the
\* default threshold 0.75; and a returned match whose three signals are
\* below their display thresholds is explained by the fallback sentence.
C17_FallbackOnlyUnderLowThreshold ==
  result.kind = "match" =>
    /\ HasFallback(result.match[1].reasoning) <=> ReturnedBelowDisplay
    /\ HasFallback(result.match[1].reasoning) =>
         /\ threshold <= FallbackCeiling
         /\ threshold # DefaultThreshold
         /\ Len(result.match[1].reasoning) = 1

\* C17 happens: a call with threshold 0.0 returned a candidate of another
\* category and another location whose text similarity is 0.28, explained
\* by the fallback sentence.
C17_Witness ==
  /\ pc = "done"
  /\ result.kind = "match"
  /\ threshold = 0
  /\ ReturnedBelowDisplay
  /\ FusedScore(Returned) = 168000
  /\ HasFallback(result.match[1].reasoning)

\* C24: whenever a candidate with a usable embedding has a fused score
\* greater than or equal to the threshold of the call, check_duplicate
\* returns a match, not nothing (stated of the calls that return).
C24_ScoreAtThresholdReturnsMatch ==
  (/\ pc = "done"
   /\ new_embedding # <<>>
   /\ result.kind # "error"
   /\ \E comp \in Candidates : IsScored(comp, NewEmb) /\ FusedScore(comp) >= threshold) =>
    result.kind = "match"

\* The best-match records of the state: that of the scan and that of the
\* returned result.
BestMatchRecords ==
  (IF scan.best_match # <<>> THEN {scan.best_match[1]} ELSE {})
    \cup (IF result.kind = "match" THEN {result.match[1]} ELSE {})

\* C25: during the scan and in the returned result every part of the
\* best-match record is the value computed for the candidate in its
\* 'complaint' field, and the breakdown's category_match is 100.0 exactly
\* when the category flag is true and 0.0 otherwise.
C25_BestMatchOfOneCandidate ==
  \A m \in BestMatchRecords :
    LET comp == m.complaint
        sig == SignalsOf(comp.id)
    IN /\ comp \in Candidates
       /\ comp.id \in scored
       /\ m.similarity_score = Round4(sig.score)
       /\ m.text_similarity = Round4(sig.text_sim)
       /\ m.location_similarity = Round4(sig.loc_sim)
       /\ m.category_match = sig.cat_match
       /\ m.factor_scores.text_similarity = RoundPct1(sig.text_sim)
       /\ m.factor_scores.location_match = RoundPct1(sig.loc_sim)
       /\ m.factor_scores.category_match = (IF m.category_match THEN 1000 ELSE 0)
       /\ m.reasoning = build_reasoning(sig.score, sig.text_sim, sig.loc_sim, sig.cat_match, new_location, comp.location, new_category, comp.category)

\* C25 happens: the second candidate replaced the first as the best match
\* and was returned; the two differ in category, in every signal and in
\* their reasoning.
C25_Witness ==
  /\ pc = "done"
  /\ result.kind = "match"
  /\ scored = {1, 2}
  /\ Returned.id = 2
  /\ FusedScore(existing_complaints[1]) > 0
  /\ SignalsOf(1).cat_match # SignalsOf(2).cat_match
  /\ SignalsOf(1).text_sim # SignalsOf(2).text_sim
  /\ SignalsOf(1).loc_sim # SignalsOf(2).loc_sim
  /\ Len(result.match[1].reasoning) = 3

(***************************************************************************)
(* Properties of submit_complaint (checked under Spec)                     *)
(***************************************************************************)
\* The request of worker p ends with this step, successfully.
Completes(p) ==
  /\ proc[p].pc # "done"
  /\ proc'[p].pc = "done"
  /\ proc'[p].response # "error"

\* C9: a submit_complaint request that completes successfully either, on a
\* match, inserted one duplicate_links row that references the matched
\* complaint and no complaints row, or, on no match, inserted one
\* complaints row with status 'registered' and the serialized embedding of
\* the new complaint and no duplicate_links row.
C9_SubmitLogsOrRegisters ==
  [][\A p \in SeqProcs :
       Completes(p) =>
         LET req == proc[p]
         IN IF req.duplicate.kind = "match"
              THEN /\ Len(complaints') = req.rows0
                   /\ Len(duplicate_links') = req.links0 + 1
                   /\ duplicate_links'[req.links0 + 1].original_complaint_id
                        = req.duplicate.match[1].complaint.id
              ELSE /\ req.duplicate.kind = "none"
                   /\ Len(duplicate_links') = req.links0
                   /\ Len(complaints') = req.rows0 + 1
                   /\ complaints'[req.rows0 + 1].status = "registered"
                   /\ complaints'[req.rows0 + 1].embedding.kind = "str"
                   /\ JsonLoads(complaints'[req.rows0 + 1].embedding.text)
                        = [ok |-> TRUE, val |-> PyList(req.embedding[1])]]_vars

\* C9 happens: a request was answered as a duplicate of a complaint that an
\* earlier request registered.
C9_Witness ==
  /\ proc["w1"].pc = "done"
  /\ proc["w1"].response = "duplicate"
  /\ Len(complaints) = 1
  /\ Len(duplicate_links) = 1
  /\ duplicate_links[1].original_complaint_id = complaints[1].id

\* The location has at least one alphanumeric token.
HasToken(location) == SplitWords(NormalizeLocation(location)) # {}

\* The vector a stored embedding text holds.
StoredVector(row) == JsonLoads(row.embedding.text).val.vec

\* The request of worker p is past check_duplicate, which the provider
\* answered.
Checked(p) ==
  /\ proc[p].pc \in {"log_duplicate", "embed", "insert", "done"}
  /\ proc[p].provided # <<>>

\* The row has the category, location and embedding of the request of p.
SameContent(p, row) ==
  /\ row.category = proc[p].category
  /\ row.location = proc[p].location
  /\ HasToken(row.location)
  /\ StoredVector(row) = proc[p].provided[1]

\* The request of p was answered as a duplicate scoring at least 75%, and
\* stored no complaint.
AnsweredAsDuplicate(p) ==
  /\ proc[p].duplicate.kind = "match"
  /\ proc[p].duplicate.match[1].similarity_score >= DefaultThreshold
  /\ proc[p].pc # "embed" /\ proc[p].pc # "insert"
  /\ Len(complaints) = proc[p].rows0

FullMatch(p, row) ==
  /\ CategoryMatch(proc[p].category, row.category)
  /\ location_similarity(proc[p].location, row.location) = Scale
  /\ cosine_similarity(PyList(proc[p].provided[1]), PyList(StoredVector(row)))
       = [ok |-> TRUE, v |-> Scale, nan |-> FALSE]

ProviderFailsIn(p) ==
  \/ /\ proc[p].pc = "check"
     /\ proc'[p].pc # "check"
     /\ proc[p].existing # <<>>
     /\ proc'[p].provided = <<>>
  \/ /\ proc[p].pc = "embed"
     /\ proc'[p].pc # "embed"
     /\ proc'[p].embedding = <<>>

\* C11: when the embedding provider fails while submit_complaint handles a
\* request, in the duplicate check or at the embedding for storage, the
\* request ends in an error, and neither complaints nor duplicate_links is
\* changed by the failing step or by any earlier step of the request.
C11_ProviderFailureWritesNothing ==
  [][\A p \in SeqProcs :
       ProviderFailsIn(p) =>
         /\ proc'[p].pc = "done"
         /\ proc'[p].response = "error"
         /\ complaints' = complaints
         /\ duplicate_links' = duplicate_links
         /\ Len(complaints) = proc[p].rows0
         /\ Len(duplicate_links) = proc[p].links0]_vars

\* C11 happens: a request whose duplicate check compared one stored
\* complaint and found no match failed at the embedding for storage.
C11_Witness ==
  /\ proc["w1"].pc = "done"
  /\ proc["w1"].response = "error"
  /\ Len(proc["w1"].existing) = 1
  /\ proc["w1"].provided # <<>>
  /\ proc["w1"].duplicate.kind = "none"
  /\ proc["w1"].embedding = <<>>
  /\ Len(complaints) = proc["w1"].rows0

\* With this step worker p fetches the existing complaints of a request.
Fetches(p) == proc[p].pc \in {"idle", "done"} /\ proc'[p].pc = "check"

\* C28: a complaint that is 'rejected' when submit_complaint fetches the
\* existing complaints is not among the candidates given to check_duplicate,
\* and the match a request reports is one of its candidates; so a complaint
\* an admin rejected is never the match of a request that starts afterwards.
C28_RejectedNeverCandidate ==
  [][\A p \in SeqProcs :
       /\ Fetches(p) =>
            \A i \in 1..Len(complaints) :
              complaints[i].status = "rejected" =>
                \A k \in 1..Len(proc'[p].existing) : proc'[p].existing[k].id # complaints[i].id
       /\ proc'[p].duplicate.kind = "match" =>
            /\ \E k \in 1..Len(proc'[p].existing) :
                 proc'[p].existing[k] = proc'[p].duplicate.match[1].complaint
            /\ proc'[p].duplicate.match[1].complaint.status # "rejected"]_vars

\* C28 happens: a complaint was registered and then rejected by an admin;
\* the same content was submitted again, met no candidate and was
\* registered as a new complaint.
C28_Witness ==
  /\ proc["w1"].pc = "done"
  /\ proc["w1"].response = "registered"
  /\ proc["w1"].rows0 = 1
  /\ proc["w1"].existing = <<>>
  /\ Len(complaints) = 2
  /\ complaints[1].status = "rejected"
  /\ complaints[2].category = complaints[1].category
  /\ complaints[2].location = complaints[1].location
  /\ complaints[2].embedding = complaints[1].embedding

\* C26: the rows of the complaints table, each stored by a successful
\* non-duplicate submit_complaint request, have pairwise distinct
\* reference_id values.
C26_ReferenceIdsDistinct ==
  \A i, j \in 1..Len(complaints) :
    i # j => complaints[i].reference_id # complaints[j].reference_id

(***************************************************************************)
(* Properties of registration (checked under AuthSpec)                     *)
(***************************************************************************)
\* The step is a register request being answered.
Registers == apiCalls' = apiCalls + 1 /\ api_response'.endpoint = "register"

\* No two profiles have the same email.
EmailsDistinct ==
  \A i, j \in 1..Len(profiles) : i # j => profiles[i].email # profiles[j].email

\* C21: a register request whose email a profile already has is answered
\* with an error status and creates no profile; after every request no two
\* profiles have the same email; and a profile register creates has the
\* email of the request and role "citizen".
C21_RegisterKeepsEmailsDistinct ==
  [][Registers =>
       /\ EmailRegistered(api_response'.request) =>
            (api_response'.code >= 400 /\ profiles' = profiles)
       /\ EmailsDistinct'
       /\ profiles' # profiles =>
            profiles' = Append(profiles, [email |-> api_response'.request, role |-> "citizen"])]_vars

\* C21 happens: after a profile was created for an email, a second request
\* with that email was answered 409, next to the administrator's profile.
C21_Witness ==
  /\ api_response.endpoint = "register"
  /\ api_response.code = 409
  /\ Len(profiles) = 2
  /\ profiles[1].role = "admin"
  /\ profiles[2] = [email |-> api_response.request, role |-> "citizen"]

(***************************************************************************)
(* Properties of tracking (checked under TrackSpec)                        *)
(***************************************************************************)
\* The step is a track request being answered.
Tracks == apiCalls' = apiCalls + 1 /\ api_response'.endpoint = "track_complaint"

\* The step is a track request for the reference id of row i.
TracksRow(i) == Tracks /\ complaints[i].reference_id = UpperStr(api_response'.request)

\* The comments update_status added for the complaint, one for each
\* successful status update of it, in order.
StatusUpdates(complaint_id) ==
  SelectSeq(complaint_comments,
            LAMBDA c : c.complaint_id = complaint_id /\ c.content \in StatusChoices)

\* The status of the last successful update of the complaint, "registered"
\* when it was never updated.
LastStatus(complaint_id) ==
  LET ups == StatusUpdates(complaint_id)
  IN IF ups = <<>> THEN "registered" ELSE ups[Len(ups)].content

\* The comments posted on the complaint through add_comment.
PostedComments(complaint_id) ==
  SelectSeq(complaint_comments,
            LAMBDA c : c.complaint_id = complaint_id /\ c.content \in CommentTexts)

\* dict.get("comments", []) on the JSON of a response.
CommentsOf(body) == IF "comments" \in DOMAIN body THEN body.comments ELSE <<>>

\* C22: a track request for a complaint reports the status of the last
\* successful status update of the complaint, and "registered" when it was
\* never updated.
C22_TrackReportsLastStatus ==
  [][\A i \in 1..Len(complaints) :
       TracksRow(i) =>
         /\ api_response'.code = 200
         /\ api_response'.body[1].status = LastStatus(complaints[i].id)]_vars

\* While the reference ids of the rows are pairwise distinct, a track
\* request for a complaint reports the status of its last successful update.
TrackReportsLastStatusOfDistinctIds ==
  [][\A i \in 1..Len(complaints) :
       (TracksRow(i) /\ C26_ReferenceIdsDistinct) =>
         /\ api_response'.code = 200
         /\ api_response'.body[1].status = LastStatus(complaints[i].id)]_vars

\* C23: a track request for a complaint on which a comment was posted
\* through add_comment is answered with a non-empty list of comments.
C23_TrackShowsComments ==
  [][\A i \in 1..Len(complaints) :
       (TracksRow(i) /\ PostedComments(complaints[i].id) # <<>>) =>
         /\ api_response'.code = 200
         /\ CommentsOf(api_response'.body[1]) # <<>>]_vars

(***************************************************************************)
(* Properties of concurrent requests (checked under RaceSpec)              *)
(***************************************************************************)
\* The vectors the embedding provider answered in the request of worker p.
ProvidedVectors(p) ==
  {proc[p].provided[i] : i \in 1..Len(proc[p].provided)}
    \cup {proc[p].embedding[i] : i \in 1..Len(proc[p].embedding)}

\* The two requests carry the same content and were both answered.
SameContentAnswered ==
  /\ proc["w1"].pc = "done"
  /\ proc["w2"].pc = "done"
  /\ proc["w1"].response # "error"
  /\ proc["w2"].response # "error"
  /\ proc["w1"].category = proc["w2"].category
  /\ proc["w1"].location = proc["w2"].location
  /\ HasToken(proc["w1"].location)
  /\ Cardinality(ProvidedVectors("w1") \cup ProvidedVectors("w2")) = 1

\* C27: of two requests with the same content handled concurrently, under
\* every interleaving of their steps, at most one is stored as a new
\* complaint; the other is answered as a duplicate.
C27_ConcurrentSameContentStoredOnce ==
  SameContentAnswered =>
    /\ {proc["w1"].response, proc["w2"].response} = {"registered", "duplicate"}
    /\ Len(complaints) = 1

(***************************************************************************)
(* Properties of the pure functions (checked under FnSpec)                 *)
(***************************************************************************)
\* The function fn has returned.
Returned_(fn) == call.fn = fn /\ ret # <<>>

\* The set of whitespace-separated tokens of the normalized string.
Tokens(loc) == SplitWords(NormalizeLocation(loc))

\* C13: location_similarity(a, b) equals location_similarity(b, a).
C13_LocationSimilaritySymmetric ==
  Returned_("location_similarity") =>
    ret[1] = location_similarity(call.args[2], call.args[1])

\* C13 happens: location_similarity returned a value strictly between 0
\* and 1 for token sets of different sizes.
C13_Witness ==
  /\ Returned_("location_similarity")
  /\ Cardinality(Tokens(call.args[1])) < Cardinality(Tokens(call.args[2]))
  /\ ret[1] > 0
  /\ ret[1] < Scale

\* The value C14 gives location_similarity for the token sets A and B.
OverlapOverLarger(A, B) ==
  IF A = {} \/ B = {} THEN 0
  ELSE TruncDiv(Cardinality(A \cap B) * Scale, Max2(Cardinality(A), Cardinality(B)))

\* C14 as stated: location_similarity is 0.0 when A or B is empty and
\* otherwise |A n B| / max(|A|, |B|); it is within [0, 1] and it is 1.0
\* exactly when A = B.
C14_OverlapOverLargerOneIffEqual ==
  Returned_("location_similarity") =>
    LET A == Tokens(call.args[1])
        B == Tokens(call.args[2])
    IN /\ ret[1] = OverlapOverLarger(A, B)
       /\ 0 <= ret[1] /\ ret[1] <= Scale
       /\ (ret[1] = Scale <=> A = B)

\* C14 as amended: location_similarity is 0.0 when A or B is empty and
\* otherwise |A n B| / max(|A|, |B|); it is within [0, 1] and it is 1.0
\* exactly when A = B and the set is not empty.
C14_OverlapOverLargerOneIffEqualNonEmpty ==
  Returned_("location_similarity") =>
    LET A == Tokens(call.args[1])
        B == Tokens(call.args[2])
    IN /\ ret[1] = OverlapOverLarger(A, B)
       /\ 0 <= ret[1] /\ ret[1] <= Scale
       /\ (ret[1] = Scale <=> (A = B /\ A # {}))

\* C14 happens: two different strings with the same two tokens score 1.0.
C14_Witness ==
  /\ Returned_("location_similarity")
  /\ call.args[1] # call.args[2]
  /\ Cardinality(Tokens(call.args[1])) = 2
  /\ Tokens(call.args[1]) = Tokens(call.args[2])
  /\ ret[1] = Scale

\* The scores of the scan are those of combined_score: on every call drawn,
\* the float returned is, to the millionth, ScoreMicro of the signals.
ScoreMicroIsCombinedScore ==
  Returned_("combined_score") =>
    Micro(ret[1]) = ScoreMicro(call.args[1], call.args[2], call.args[3])

\* The exact weighted sum of C15 in hundredths of a millionth.
WeightedSum(text_sim, loc_sim, category_match) ==
  60 * text_sim + 30 * loc_sim + 10 * (IF category_match THEN Scale ELSE 0)

\* C15: combined_score is 0.60 text_sim + 0.30 loc_sim + 0.10 for a matching
\* category (here: to the millionth); for signals in [0, 1] the result is
\* in [0, 1], combined_score(1.0, 1.0, True) is 1.0 and
\* combined_score(0.0, 0.0, False) is 0.0.
C15_WeightedSumWithinUnit ==
  Returned_("combined_score") =>
    LET text_sim == call.args[1]
        loc_sim == call.args[2]
        category_match == call.args[3]
    IN /\ Abs(100 * Micro(ret[1]) - WeightedSum(text_sim, loc_sim, category_match)) <= 50
       /\ ~F64Less(ret[1], F64(0))
       /\ ~F64Less(F64(Scale), ret[1])
       /\ (text_sim = Scale /\ loc_sim = Scale /\ category_match) => ret[1] = F64(Scale)
       /\ (text_sim = 0 /\ loc_sim = 0 /\ ~category_match) => ret[1] = F64(0)

\* C16: build_reasoning emits the fallback sentence if and only if
\* text_sim < 0.50, loc_sim < 0.30 and the category does not match, and
\* then the fallback is the only sentence.
C16_FallbackIffNoRuleFired ==
  Returned_("build_reasoning") =>
    LET text_sim == call.args[2]
        loc_sim == call.args[3]
        category_match == call.args[4]
    IN /\ HasFallback(ret[1]) <=> (text_sim < 500000 /\ loc_sim < 300000 /\ ~category_match)
       /\ HasFallback(ret[1]) => Len(ret[1]) = 1

\* C16 happens: the fallback is returned for signals just below 0.50 and
\* 0.30.
C16_Witness ==
  /\ Returned_("build_reasoning")
  /\ call.args[2] = 499999
  /\ call.args[3] = 299999
  /\ HasFallback(ret[1])

\* C18: cosine_similarity returns 0.0 and does not fail whenever one of its
\* two vectors has Euclidean norm exactly zero, for every other vector of
\* the same length.
C18_ZeroNormReturnsZero ==
  Returned_("cosine_similarity") =>
    LET a == call.args[1]
        b == call.args[2]
    IN (Len(a.vec) = Len(b.vec) /\ (Norm(a.vec) = 0 \/ Norm(b.vec) = 0)) =>
         ret[1] = [ok |-> TRUE, v |-> 0, nan |-> FALSE]

(***************************************************************************)
(* Properties of the /admin endpoints (checked under AdminSpec)            *)
(***************************************************************************)
\* C20: every endpoint under /admin answers a caller whose profile role is
\* not 'admin' with 403 and writes nothing to the tables for that caller.
C20_NonAdminRejectedWithoutWrite ==
  (admin_response.endpoint # "none" /\ admin_response.role # "admin") =>
    /\ admin_response.code = 403
    /\ admin_response.before = dbVars

====
